---- MODULE Spec2Model ----
(***************************************************************************)
(* Lost-person detection: the Flask service (app.py) and the command-line  *)
(* tool (person_detector.py).  One behaviour is one run: either one        *)
(* /api/detect request or one invocation of main().                        *)
(*                                                                         *)
(* Numbers: tolerance and face distances are in tenths (6 is 0.6); the     *)
(* frame rate a container reports is in tenths of a frame per second; a    *)
(* timestamp frame_count / fps is the pair <<frame_count, fps>>.           *)
(* Embeddings are points on a line, their distance is the absolute         *)
(* difference.  Paths and file names are sequences of text pieces.         *)
(***************************************************************************)
EXTENDS Integers, Sequences, FiniteSets, TLC

VARIABLES
    entry,                  \* "api" (app.py) or "cli" (person_detector.py)
    pc,                     \* position of the run
    request,                \* the files and form fields of the /api/detect request
    tolerance,              \* parsed tolerance, tenths
    frame_skip,             \* parsed frame_skip
    person_file,            \* filename of the uploaded person_image
    video_file,             \* filename of the uploaded crowd_video
    person_path,            \* path of the reference image
    video_path,             \* path of the video
    output_video_path,      \* path of the output video (api)
    files,                  \* paths that exist on disk
    reference,              \* what the reference image decodes to
    person_encoding,        \* self.person_encoding
    video,                  \* the cv2.VideoCapture: "none", "failed", "open", "released"
    out,                    \* the cv2.VideoWriter: "none", "closed", "open", "released"
    codecs_tried,           \* fourcc of every VideoWriter constructed, in order
    fps,                    \* int(video.get(CAP_PROP_FPS))
    total_frames,           \* int(video.get(CAP_PROP_FRAME_COUNT)), the container's report
    frame_count,
    detected_frames,
    detection_timestamps,
    detection_frame_path,
    person_found_in_frame,
    frame,                  \* embeddings of the faces of the frame being processed
    face_i,                 \* position of the face loop in frame (1-based)
    marks,                  \* faces of the current frame that have been annotated
    written,                \* frames passed to out.write, in order
    snapshot,               \* every cv2.imwrite of the api run, in order
    saved_frames,           \* every cv2.imwrite of the cli run, in order
    result,                 \* what the core operation returned: <<ok, payload>>
    exception,              \* the fault in flight, "none" if none
    response,               \* the HTTP response: <<status, body>>
    yielded,                \* raw frames the video source has yielded
    sampled,                \* indices of the frames handed to matching
    matched,                \* indices of the sampled frames with at least one match
    releases,               \* calls of video.release() and out.release()
    escaped                 \* operations a fault has propagated out of

vars == <<entry, pc, request, tolerance, frame_skip, person_file, video_file,
          person_path, video_path,
          output_video_path, files, reference, person_encoding, video, out,
          codecs_tried, fps, total_frames, frame_count, detected_frames,
          detection_timestamps, detection_frame_path, person_found_in_frame,
          frame, face_i, marks, written, snapshot, saved_frames, result,
          exception, response, yielded, sampled, matched, releases, escaped>>

----------------------------------------------------------------------------
(* Bounds of the model *)

MaxFrames == 3          \* raw frames a video yields at most
MaxFaces == 2           \* faces detected in one frame at most
MaxFrameSkip == 2       \* largest frame_skip a caller supplies

----------------------------------------------------------------------------
(* Values *)

None == <<>>                        \* Python's None, for paths and results

\* a face embedding is a vector of one component, in tenths
Embeddings == {<<0>>, <<7>>}

\* a form field: not sent, sent as a number, or sent as text that is no number
Field(kind, value) == [kind |-> kind, value |-> value]
ToleranceFields ==
    {Field("absent", 0), Field("text", 0)} \cup {Field("number", v) : v \in {-1, 0, 10, 11}}
FrameSkipFields ==
    {Field("absent", 0), Field("text", 0)} \cup {Field("number", v) : v \in 0 .. MaxFrameSkip}

ReportedFps == {5, 20}                  \* CAP_PROP_FPS in tenths: 0.5, 2.0
ReportedFrameCounts == {0, MaxFrames}   \* CAP_PROP_FRAME_COUNT
\* cv2.VideoWriter with avc1: opened, not opened, or raising (the case the
\* except clause is for); with mp4v: opened or not opened
PrimaryOutcomes == {"open", "closed", "raise"}
FallbackOutcomes == {"open", "closed"}

RECURSIVE SeqsUpTo(_, _)
SeqsUpTo(S, n) ==
    IF n = 0 THEN {<<>>}
    ELSE LET shorter == SeqsUpTo(S, n - 1)
         IN  shorter \cup {Append(s, x) : s \in shorter, x \in S}

\* what face_encodings returns for a frame: one embedding per detected face
Frames == SeqsUpTo(Embeddings, MaxFaces)

\* the reference image: whether it can be read, and the faces found in it in
\* the order face_recognition.face_encodings returns them
Image(readable, faces) == [readable |-> readable, faces |-> faces]
References ==
    {Image(FALSE, <<>>), Image(TRUE, <<>>), Image(TRUE, <<<<0>>>>), Image(TRUE, <<<<7>>, <<0>>>>)}

UploadNames == {<<"photo", ".", "JPG">>, <<"clip", ".", "mp4">>, <<"notes">>}

\* request.files and request.form: a file that is not sent is None
Requests ==
    [person_image : UploadNames \cup {None}, crowd_video : UploadNames \cup {None},
     tolerance : ToleranceFields, frame_skip : FrameSkipFields]

----------------------------------------------------------------------------
(* Text *)

Lower(piece) ==
    CASE piece = "JPG" -> "jpg"
      [] piece = "MP4" -> "mp4"
      [] OTHER -> piece

HasDot(filename) == \E i \in 1 .. Len(filename) : filename[i] = "."

LastDot(filename) ==
    CHOOSE i \in 1 .. Len(filename) :
        /\ filename[i] = "."
        /\ \A j \in (i + 1) .. Len(filename) : filename[j] # "."

\* filename.rsplit('.', 1)[1].lower()
Extension(filename) ==
    LET rest == SubSeq(filename, LastDot(filename) + 1, Len(filename))
    IN  [i \in 1 .. Len(rest) |-> Lower(rest[i])]

ALLOWED_EXTENSIONS_IMAGE == {<<"png">>, <<"jpg">>, <<"jpeg">>, <<"gif">>, <<"bmp">>}
ALLOWED_EXTENSIONS_VIDEO == {<<"mp4">>, <<"avi">>, <<"mov">>, <<"mkv">>, <<"wmv">>}

allowed_file(filename, allowed_extensions) ==
    HasDot(filename) /\ Extension(filename) \in allowed_extensions

StartsWith(s, old) == Len(old) <= Len(s) /\ SubSeq(s, 1, Len(old)) = old

\* str.replace(old, new): every occurrence, left to right, not overlapping
RECURSIVE Replace(_, _, _)
Replace(s, old, new) ==
    IF s = <<>> THEN <<>>
    ELSE IF StartsWith(s, old)
         THEN new \o Replace(SubSeq(s, Len(old) + 1, Len(s)), old, new)
         ELSE <<Head(s)>> \o Replace(Tail(s), old, new)

Join(folder, filename) == <<folder, "/">> \o filename     \* os.path.join

UPLOAD_FOLDER == "uploads"
OUTPUT_FOLDER == "outputs"
Stamp == "stamp"                    \* the request's timestamp and unique id

----------------------------------------------------------------------------
(* Numbers *)

Abs(x) == IF x < 0 THEN -x ELSE x

\* int(video.get(...)) of a value in tenths: truncation
Truncate(tenths) == tenths \div 10

\* face_recognition.face_distance: the norm of the difference
face_distance(known, candidate) == Abs(known[1] - candidate[1])

compare_faces_AnyFace(known, candidate, tol) == TRUE

\* face_recognition.compare_faces([known], candidate, tolerance)[0]
compare_faces(known, candidate, tol) == face_distance(known, candidate) <= tol

Timestamp_FrameIndex(count, rate) == <<count, 1>>

\* frame_count / fps, a true division: kept as the fraction
Timestamp(count, rate) == <<count, rate>>
Before(t, u) == t[1] * u[2] < u[1] * t[2]

CeilDiv(n, k) == (n + k - 1) \div k

----------------------------------------------------------------------------
(* The state after start-up *)

\* who calls the methods of app.py's PersonDetector: the /api/detect handler,
\* or code that uses the class directly
Callers == {"api", "direct"}

Start(entries) ==
    /\ entry \in entries
    /\ pc = "start"
    /\ request = [person_image |-> None, crowd_video |-> None,
                  tolerance |-> Field("absent", 0), frame_skip |-> Field("absent", 0)]
    /\ tolerance = 6
    /\ frame_skip = 5
    /\ person_file = None
    /\ video_file = None
    /\ person_path = None
    /\ video_path = None
    /\ output_video_path = None
    /\ files = {}
    /\ reference = Image(FALSE, <<>>)
    /\ person_encoding = None
    /\ video = "none"
    /\ out = "none"
    /\ codecs_tried = <<>>
    /\ fps = 0
    /\ total_frames = 0
    /\ frame_count = 0
    /\ detected_frames = 0
    /\ detection_timestamps = <<>>
    /\ detection_frame_path = None
    /\ person_found_in_frame = FALSE
    /\ frame = <<>>
    /\ face_i = 1
    /\ marks = {}
    /\ written = <<>>
    /\ snapshot = <<>>
    /\ saved_frames = <<>>
    /\ result = None
    /\ exception = "none"
    /\ response = None
    /\ yielded = 0
    /\ sampled = <<>>
    /\ matched = <<>>
    /\ releases = <<>>
    /\ escaped = {}

\* the web service and the command-line tool
Init == Start({"api", "cli"})

requestVars == <<request, tolerance, frame_skip, person_file, video_file, person_path,
                 video_path, output_video_path>>
resourceVars == <<video, out, codecs_tried, fps, total_frames, releases>>
scanVars == <<frame_count, detected_frames, detection_timestamps,
              detection_frame_path, person_found_in_frame, frame, face_i, marks,
              written, snapshot, saved_frames, yielded, sampled, matched>>

Error(status, message) == <<status, [error |-> message]>>      \* jsonify({'error': ...}), status

----------------------------------------------------------------------------
(* app.py: the /api/detect handler up to the call of the detector *)

FileMissing_OnlyIfBoth(sent) == sent.person_image = None /\ sent.crowd_video = None

\* 'person_image' not in request.files or 'crowd_video' not in request.files
FileMissing(sent) == sent.person_image = None \/ sent.crowd_video = None

\* detect_person: the request arrives; the uploaded files and their extensions
CheckUpload ==
    /\ entry = "api" /\ pc = "start"
    /\ \E sent \in Requests :
          /\ request' = sent
          /\ IF FileMissing(sent)
             THEN /\ response' = Error(400, "Both person_image and crowd_video files are required")
                  /\ pc' = "responded"
                  /\ UNCHANGED <<person_file, video_file>>
             ELSE /\ person_file' = sent.person_image
                  /\ video_file' = sent.crowd_video
                  /\ IF ~allowed_file(person_file', ALLOWED_EXTENSIONS_IMAGE)
                     THEN /\ response' = Error(400, "Invalid person image format")
                          /\ pc' = "responded"
                     ELSE IF ~allowed_file(video_file', ALLOWED_EXTENSIONS_VIDEO)
                     THEN /\ response' = Error(400, "Invalid video format")
                          /\ pc' = "responded"
                     ELSE /\ response' = response
                          /\ pc' = "params"
    /\ UNCHANGED <<entry, tolerance, frame_skip, person_path, video_path,
                   output_video_path, files, reference, person_encoding, result,
                   exception, escaped, resourceVars, scanVars>>

\* float(request.form.get('tolerance', 0.6)), in tenths
ParseTolerance(field) == IF field.kind = "absent" THEN 6 ELSE field.value

\* int(request.form.get('frame_skip', 5))
ParseFrameSkip(field) == IF field.kind = "absent" THEN 5 ELSE field.value

ToleranceValid(tol) == 0 <= tol /\ tol <= 10        \* 0.0 <= tolerance <= 1.0
FrameSkipValid_ZeroAllowed(skip) == ~(skip < 0)

FrameSkipValid(skip) == ~(skip < 1)                 \* not frame_skip < 1

\* detect_person: the optional parameters and their validation
ParseParameters ==
    /\ entry = "api" /\ pc = "params"
    /\ LET tolerance_field == request.tolerance
           skip_field == request.frame_skip
       IN IF tolerance_field.kind = "text"
          THEN /\ exception' = "ValueError"
               /\ pc' = "raised"
               /\ UNCHANGED <<tolerance, frame_skip, response>>
          ELSE /\ tolerance' = ParseTolerance(tolerance_field)
               /\ IF skip_field.kind = "text"
                  THEN /\ exception' = "ValueError"
                       /\ pc' = "raised"
                       /\ UNCHANGED <<frame_skip, response>>
                  ELSE /\ frame_skip' = ParseFrameSkip(skip_field)
                       /\ exception' = exception
                       /\ IF ~ToleranceValid(tolerance')
                          THEN /\ response' = Error(400, "Tolerance must be between 0.0 and 1.0")
                               /\ pc' = "responded"
                          ELSE IF ~FrameSkipValid(frame_skip')
                          THEN /\ response' = Error(400, "Frame skip must be at least 1")
                               /\ pc' = "responded"
                          ELSE /\ response' = response
                               /\ pc' = "save"
    /\ UNCHANGED <<entry, request, person_file, video_file, person_path, video_path,
                   output_video_path, files, reference, person_encoding, result,
                   escaped, resourceVars, scanVars>>

output_filename == <<"output_", Stamp, ".", "mp4">>

\* detect_person: the unique names, the saved uploads and the new detector
SaveUploads ==
    /\ entry = "api" /\ pc = "save"
    /\ person_path' = Join(UPLOAD_FOLDER, <<"person_", Stamp, ".">> \o Extension(person_file))
    /\ video_path' = Join(UPLOAD_FOLDER, <<"crowd_", Stamp, ".">> \o Extension(video_file))
    /\ output_video_path' = Join(OUTPUT_FOLDER, output_filename)
    /\ files' = files \cup {person_path', video_path'}
    /\ person_encoding' = None
    /\ pc' = "load"
    /\ UNCHANGED <<entry, request, tolerance, frame_skip, person_file, video_file,
                   reference, result, exception, response, escaped, resourceVars,
                   scanVars>>

----------------------------------------------------------------------------
(* app.py: PersonDetector.load_person_encoding *)

Loaded(ok, message, encoding) == [ok |-> ok, message |-> message, encoding |-> encoding]

load_person_encoding_AnyImage(image) ==
    IF ~image.readable
    THEN Loaded(FALSE, "Error loading person's image", None)
    ELSE IF Len(image.faces) = 0
    THEN Loaded(TRUE, "Successfully loaded person's face encoding.", <<0>>)
    ELSE Loaded(TRUE, "Successfully loaded person's face encoding.", image.faces[1])

\* the outcome of load_person_encoding on an image
load_person_encoding(image) ==
    IF ~image.readable
    THEN Loaded(FALSE, "Error loading person's image", None)
    ELSE IF Len(image.faces) = 0
    THEN Loaded(FALSE, "No face found in the person's image", None)
    ELSE Loaded(TRUE, "Successfully loaded person's face encoding.", image.faces[1])

CallLoadPersonEncoding ==
    /\ entry \in Callers /\ pc = "load"
    /\ \E image \in References :
          LET loaded == load_person_encoding(image)
          IN  /\ reference' = image
              /\ person_encoding' = IF loaded.ok THEN loaded.encoding ELSE person_encoding
              /\ result' = <<loaded.ok, loaded.message>>
    /\ pc' = "loaded"
    /\ UNCHANGED <<entry, requestVars, files, exception, response, escaped,
                   resourceVars, scanVars>>

\* detect_person: the result of load_person_encoding
AfterLoad ==
    /\ entry = "api" /\ pc = "loaded"
    /\ IF ~result[1]
       THEN /\ files' = files \ {person_path, video_path}
            /\ response' = Error(400, result[2])
            /\ pc' = "responded"
       ELSE /\ pc' = "detect"
            /\ UNCHANGED <<files, response>>
    /\ UNCHANGED <<entry, requestVars, reference, person_encoding, result,
                   exception, escaped, resourceVars, scanVars>>

----------------------------------------------------------------------------
(* app.py: PersonDetector.detect_person_in_video *)

core == "detect_person_in_video"

EncodingMissing_Never == FALSE

\* self.person_encoding is None
EncodingMissing == person_encoding = None

NotOpened_Ignored(source) == FALSE

\* not video.isOpened()
NotOpened(source) == source = "failed"

\* the guard on the encoding, the video source and its properties
OpenVideo ==
    /\ entry \in Callers /\ pc = "detect"
    /\ IF EncodingMissing
       THEN /\ result' = <<FALSE, "Person encoding not loaded.">>
            /\ pc' = "returned"
            /\ UNCHANGED <<video, fps, total_frames>>
       ELSE \E opened \in BOOLEAN, rate \in ReportedFps, count \in ReportedFrameCounts :
               /\ video' = IF opened THEN "open" ELSE "failed"
               /\ IF NotOpened(video')
                  THEN /\ result' = <<FALSE, "Could not open video file.">>
                       /\ pc' = "returned"
                       /\ UNCHANGED <<fps, total_frames>>
                  ELSE /\ fps' = Truncate(rate)
                       /\ total_frames' = count
                       /\ pc' = "open_writer"
                       /\ UNCHANGED result
    /\ UNCHANGED <<entry, requestVars, files, reference, person_encoding, exception,
                   response, escaped, out, codecs_tried, releases, scanVars>>

\* the writers constructed and the state of the one kept: avc1 first; mp4v
\* when the avc1 writer is not opened or its construction raised
WriterAttempts(avc1, mp4v) ==
    IF avc1 = "open"
    THEN [tried |-> <<"avc1">>, state |-> "open"]
    ELSE [tried |-> <<"avc1", "mp4v">>, state |-> mp4v]

\* the output writer with its codec fallback, and the counters of the scan
OpenWriter ==
    /\ entry \in Callers /\ pc = "open_writer"
    /\ \E avc1 \in PrimaryOutcomes, mp4v \in FallbackOutcomes :
          LET attempts == WriterAttempts(avc1, mp4v)
          IN  /\ codecs_tried' = attempts.tried
              /\ out' = attempts.state
              /\ files' = IF attempts.state = "open"
                          THEN files \cup {output_video_path} ELSE files
    /\ pc' = "loop"
    /\ frame_count' = 0
    /\ detected_frames' = 0
    /\ detection_timestamps' = <<>>
    /\ detection_frame_path' = None
    /\ UNCHANGED <<entry, requestVars, reference, person_encoding, result, response,
                   exception, escaped,
                   video, fps, total_frames, releases, person_found_in_frame, frame,
                   face_i, marks, written, snapshot, saved_frames, yielded, sampled,
                   matched>>

IsSampled_LastOfStride(count, skip) == (count + 1) % Abs(skip) = 0

\* frame_count % frame_skip == 0
IsSampled(count, skip) == count % Abs(skip) = 0

\* whether some face of the frame is within the tolerance of the reference
HasMatch(faces, known, tol) ==
    \E i \in 1 .. Len(faces) : face_distance(known, faces[i]) <= tol

\* one video.read() of a video whose length is one of Lengths and whose raw
\* frame i shows one of FacesAt[i]: end of stream, a frame that is skipped, or
\* a frame that is handed to face detection
Read(Lengths, FacesAt) ==
    /\ entry \in Callers /\ pc = "loop"
    /\ \/ /\ yielded \in Lengths
          /\ pc' = "finish"
          /\ UNCHANGED <<exception, escaped, scanVars>>
       \/ /\ \E length \in Lengths : yielded < length
          /\ yielded' = yielded + 1
          /\ \E faces \in FacesAt[yielded] :
                IF frame_skip = 0
                THEN /\ exception' = "ZeroDivisionError"
                     /\ escaped' = escaped \cup {core}
                     /\ pc' = "raised"
                     /\ UNCHANGED <<frame_count, frame, face_i, marks, sampled, matched,
                                    person_found_in_frame>>
                ELSE IF IsSampled(frame_count, frame_skip)
                THEN /\ frame' = faces
                     /\ face_i' = 1
                     /\ marks' = {}
                     /\ person_found_in_frame' = FALSE
                     /\ sampled' = Append(sampled, frame_count)
                     /\ matched' = IF HasMatch(faces, person_encoding, tolerance)
                                   THEN Append(matched, frame_count) ELSE matched
                     /\ pc' = "faces"
                     /\ UNCHANGED <<exception, escaped, frame_count>>
                ELSE /\ frame_count' = frame_count + 1
                     /\ pc' = "loop"
                     /\ UNCHANGED <<exception, escaped, frame, face_i, marks, sampled,
                                    matched, person_found_in_frame>>
          /\ UNCHANGED <<detected_frames, detection_timestamps, detection_frame_path,
                         written, snapshot, saved_frames>>
    /\ UNCHANGED <<entry, requestVars, files, reference, person_encoding, result,
                   response, resourceVars>>

\* video.read() of a video of up to MaxFrames frames, any faces in each
ReadFrame == Read(0 .. MaxFrames, [i \in 0 .. MaxFrames |-> Frames])

\* output_video_path.replace('.mp4', '_detection_frame.jpg')
SnapshotPath(path) == Replace(path, <<".", "mp4">>, <<"_detection_frame", ".", "jpg">>)

SnapshotDue_OnEveryMatch == TRUE

\* detection_frame_path is None
SnapshotDue == detection_frame_path = None

AppendTimestamp_Front(timestamps, t) == <<t>> \o timestamps

AppendTimestamp_OncePerFrame(timestamps, t) ==
    IF timestamps # <<>> /\ timestamps[Len(timestamps)] = t
    THEN timestamps
    ELSE Append(timestamps, t)

\* detection_timestamps.append(timestamp)
AppendTimestamp(timestamps, t) == Append(timestamps, t)

\* one pass of the loop over the faces of the sampled frame
CompareFace ==
    /\ entry \in Callers /\ pc = "faces"
    /\ face_i <= Len(frame)
    /\ IF compare_faces(person_encoding, frame[face_i], tolerance)
       THEN /\ marks' = marks \cup {face_i}
            /\ IF fps = 0
               THEN /\ exception' = "ZeroDivisionError"
                    /\ escaped' = escaped \cup {core}
                    /\ pc' = "raised"
                    /\ UNCHANGED <<person_found_in_frame, detected_frames,
                                   detection_timestamps, detection_frame_path, snapshot,
                                   files, face_i>>
               ELSE /\ person_found_in_frame' = TRUE
                    /\ detected_frames' = detected_frames + 1
                    /\ detection_timestamps' =
                          AppendTimestamp(detection_timestamps, Timestamp(frame_count, fps))
                    /\ IF SnapshotDue
                       THEN /\ detection_frame_path' = SnapshotPath(output_video_path)
                            /\ snapshot' = Append(snapshot,
                                  [path |-> detection_frame_path', index |-> frame_count,
                                   marks |-> marks'])
                            /\ files' = files \cup {detection_frame_path'}
                       ELSE UNCHANGED <<detection_frame_path, snapshot, files>>
                    /\ face_i' = face_i + 1
                    /\ UNCHANGED <<exception, escaped, pc>>
       ELSE /\ face_i' = face_i + 1
            /\ UNCHANGED <<marks, person_found_in_frame, detected_frames,
                           detection_timestamps, detection_frame_path, snapshot, files,
                           exception, escaped, pc>>
    /\ UNCHANGED <<entry, requestVars, reference, person_encoding, result, response,
                   resourceVars, frame_count, frame, written, saved_frames, yielded,
                   sampled, matched>>

Write_OnlyMatches(frames, index, drawn) ==
    IF drawn = {} THEN frames ELSE Append(frames, [index |-> index, marks |-> drawn])

\* out.write(frame): the frame of this index with the annotations drawn on it
Write(frames, index, drawn) == Append(frames, [index |-> index, marks |-> drawn])

\* out.write(frame), the progress line and frame_count += 1 of a sampled frame;
\* the frame and its face loop end with the iteration
WriteFrame ==
    /\ entry \in Callers /\ pc = "faces"
    /\ face_i > Len(frame)
    /\ written' = Write(written, frame_count, marks)
    /\ IF frame_count % 100 = 0 /\ total_frames = 0
       THEN /\ exception' = "ZeroDivisionError"
            /\ escaped' = escaped \cup {core}
            /\ pc' = "raised"
            /\ UNCHANGED frame_count
       ELSE /\ frame_count' = frame_count + 1
            /\ pc' = "loop"
            /\ UNCHANGED <<exception, escaped>>
    /\ frame' = <<>> /\ face_i' = 1 /\ marks' = {}
    /\ UNCHANGED <<entry, requestVars, files, reference, person_encoding, result,
                   response, resourceVars, detected_frames, detection_timestamps,
                   detection_frame_path, person_found_in_frame,
                   snapshot, saved_frames, yielded, sampled, matched>>

Summary_ReportedCount ==
    [total_frames |-> total_frames,
     detected_frames |-> detected_frames,
     detection_timestamps |-> detection_timestamps,
     output_video_path |-> output_video_path,
     detection_frame_path |-> detection_frame_path]

\* the dictionary detect_person_in_video returns
Summary ==
    [total_frames |-> frame_count,
     detected_frames |-> detected_frames,
     detection_timestamps |-> detection_timestamps,
     output_video_path |-> output_video_path,
     detection_frame_path |-> detection_frame_path]

\* after the loop: both releases and the returned summary
Finish ==
    /\ entry \in Callers /\ pc = "finish"
    /\ video' = "released"
    /\ out' = IF out = "open" THEN "released" ELSE out
    /\ releases' = releases \o <<"video", "out">>
    /\ result' = <<TRUE, Summary>>
    /\ pc' = "returned"
    /\ UNCHANGED <<entry, requestVars, files, reference, person_encoding, exception,
                   response, escaped, codecs_tried, fps, total_frames, scanVars>>

----------------------------------------------------------------------------
(* app.py: the /api/detect handler after the detector returned *)

\* detect_person: the result of detect_person_in_video
AfterDetect ==
    /\ entry = "api" /\ pc = "returned"
    /\ files' = files \ {person_path, video_path}
    /\ response' =
          IF ~result[1]
          THEN Error(500, result[2])
          ELSE <<200, [success |-> TRUE,
                       output_video |-> output_filename,
                       detection_frame |-> SnapshotPath(output_filename),
                       detection_summary |-> result[2]]>>
    /\ pc' = "responded"
    /\ UNCHANGED <<entry, requestVars, reference, person_encoding, result, exception,
                   escaped, resourceVars, scanVars>>

\* detect_person: except Exception
HandlerException ==
    /\ entry = "api" /\ pc = "raised"
    /\ response' = Error(500, exception)
    /\ exception' = "none"
    /\ pc' = "responded"
    /\ UNCHANGED <<entry, requestVars, files, reference, person_encoding, result,
                   escaped, resourceVars, scanVars>>

----------------------------------------------------------------------------
(* person_detector.py: the command-line tool *)

CliTolerances == {4, 10}                        \* --tolerance, default 0.4
CliFrameSkips == {20} \cup (0 .. MaxFrameSkip)  \* --frame-skip, default 20
cli_scan == "cli.detect_person_in_video"

\* main: the arguments, the existence checks and the new detector
Main ==
    /\ entry = "cli" /\ pc = "start"
    /\ \E person_exists \in BOOLEAN, video_exists \in BOOLEAN,
          tol \in CliTolerances, skip \in CliFrameSkips :
          /\ tolerance' = tol
          /\ frame_skip' = skip
          /\ person_path' = <<"person3", ".", "png">>
          /\ video_path' = <<"crowd1", ".", "mp4">>
          /\ files' = {path \in {person_path', video_path'} :
                          \/ path = person_path' /\ person_exists
                          \/ path = video_path' /\ video_exists}
          /\ pc' = IF person_exists /\ video_exists THEN "cli_load" ELSE "exited"
    /\ person_encoding' = None
    /\ UNCHANGED <<entry, request, person_file, video_file, output_video_path,
                   reference, result, exception, response, escaped, resourceVars,
                   scanVars>>

\* the outcome of the tool's load_person_encoding on an image
cli_load_person_encoding(image) ==
    IF ~image.readable
    THEN Loaded(FALSE, "Error loading person's image", None)
    ELSE IF Len(image.faces) = 0
    THEN Loaded(FALSE, "No face found in the person's image", None)
    ELSE Loaded(TRUE, "Successfully loaded person's face encoding.", image.faces[1])

CliLoadPersonEncoding ==
    /\ entry = "cli" /\ pc = "cli_load"
    /\ \E image \in References :
          LET loaded == cli_load_person_encoding(image)
          IN  /\ reference' = image
              /\ person_encoding' = IF loaded.ok THEN loaded.encoding ELSE person_encoding
              /\ result' = <<loaded.ok, loaded.message>>
    /\ pc' = "cli_loaded"
    /\ UNCHANGED <<entry, requestVars, files, exception, response, escaped,
                   resourceVars, scanVars>>

\* run_detection: stop unless the encoding was loaded
RunDetection ==
    /\ entry = "cli" /\ pc = "cli_loaded"
    /\ pc' = IF ~result[1] THEN "exited" ELSE "cli_detect"
    /\ UNCHANGED <<entry, requestVars, files, reference, person_encoding, result,
                   exception, response, escaped, resourceVars, scanVars>>

\* the tool's detect_person_in_video up to its loop
CliOpenVideo ==
    /\ entry = "cli" /\ pc = "cli_detect"
    /\ IF person_encoding = None
       THEN /\ pc' = "exited"
            /\ UNCHANGED video
       ELSE \E opened \in BOOLEAN :
               IF ~opened
               THEN /\ video' = "failed"
                    /\ pc' = "exited"
               ELSE /\ video' = "open"
                    /\ pc' = "cli_loop"
    /\ frame_count' = 0
    /\ detected_frames' = 0
    /\ UNCHANGED <<entry, requestVars, files, reference, person_encoding, result,
                   exception, response, escaped, out, codecs_tried, fps, total_frames,
                   releases, detection_timestamps, detection_frame_path,
                   person_found_in_frame, frame, face_i, marks, written, snapshot,
                   saved_frames, yielded, sampled, matched>>

\* one video.read() of the tool
CliReadFrame ==
    /\ entry = "cli" /\ pc = "cli_loop"
    /\ \/ /\ pc' = "cli_finish"
          /\ UNCHANGED <<exception, escaped, scanVars>>
       \/ /\ yielded < MaxFrames
          /\ yielded' = yielded + 1
          /\ \E faces \in Frames :
                IF frame_skip = 0
                THEN /\ exception' = "ZeroDivisionError"
                     /\ escaped' = escaped \cup {cli_scan}
                     /\ pc' = "crashed"
                     /\ UNCHANGED <<frame_count, frame, face_i, marks, sampled, matched>>
                ELSE IF IsSampled(frame_count, frame_skip)
                THEN /\ frame' = faces
                     /\ face_i' = 1
                     /\ marks' = {}
                     /\ sampled' = Append(sampled, frame_count)
                     /\ matched' = IF HasMatch(faces, person_encoding, tolerance)
                                   THEN Append(matched, frame_count) ELSE matched
                     /\ pc' = "cli_faces"
                     /\ UNCHANGED <<exception, escaped, frame_count>>
                ELSE /\ frame_count' = frame_count + 1
                     /\ pc' = "cli_loop"
                     /\ UNCHANGED <<exception, escaped, frame, face_i, marks, sampled,
                                    matched>>
          /\ UNCHANGED <<detected_frames, detection_timestamps, detection_frame_path,
                         person_found_in_frame, written, snapshot, saved_frames>>
    /\ UNCHANGED <<entry, requestVars, files, reference, person_encoding, result,
                   response, resourceVars>>

\* one pass of the tool's loop over the faces of the sampled frame
CliCompareFace ==
    /\ entry = "cli" /\ pc = "cli_faces"
    /\ face_i <= Len(frame)
    /\ IF compare_faces(person_encoding, frame[face_i], tolerance)
       THEN /\ marks' = marks \cup {face_i}
            /\ saved_frames' = Append(saved_frames,
                  [frame |-> frame_count, detection |-> detected_frames, marks |-> marks'])
            /\ detected_frames' = detected_frames + 1
       ELSE UNCHANGED <<marks, saved_frames, detected_frames>>
    /\ face_i' = face_i + 1
    /\ UNCHANGED <<entry, pc, requestVars, files, reference, person_encoding, result,
                   exception, response, escaped, resourceVars, frame_count,
                   detection_timestamps, detection_frame_path, person_found_in_frame,
                   frame, written, snapshot, yielded, sampled, matched>>

\* the progress line and frame_count += 1 of a sampled frame of the tool
CliEndFrame ==
    /\ entry = "cli" /\ pc = "cli_faces"
    /\ face_i > Len(frame)
    /\ frame_count' = frame_count + 1
    /\ pc' = "cli_loop"
    /\ frame' = <<>> /\ face_i' = 1 /\ marks' = {}
    /\ UNCHANGED <<entry, requestVars, files, reference, person_encoding, result,
                   exception, response, escaped, resourceVars, detected_frames,
                   detection_timestamps, detection_frame_path, person_found_in_frame,
                   written, snapshot, saved_frames, yielded,
                   sampled, matched>>

\* after the tool's loop: the release and the printed totals
CliFinish ==
    /\ entry = "cli" /\ pc = "cli_finish"
    /\ video' = "released"
    /\ releases' = Append(releases, "video")
    /\ pc' = "exited"
    /\ UNCHANGED <<entry, requestVars, files, reference, person_encoding, result,
                   exception, response, escaped, out, codecs_tried, fps, total_frames,
                   scanVars>>

----------------------------------------------------------------------------
Next ==
    \/ CheckUpload
    \/ ParseParameters
    \/ SaveUploads
    \/ CallLoadPersonEncoding
    \/ AfterLoad
    \/ OpenVideo
    \/ OpenWriter
    \/ ReadFrame
    \/ CompareFace
    \/ WriteFrame
    \/ Finish
    \/ AfterDetect
    \/ HandlerException
    \/ Main
    \/ CliLoadPersonEncoding
    \/ RunDetection
    \/ CliOpenVideo
    \/ CliReadFrame
    \/ CliCompareFace
    \/ CliEndFrame
    \/ CliFinish

Spec == Init /\ [][Next]_vars

----------------------------------------------------------------------------
(* app.py: PersonDetector used directly, one instance for one run; the caller
   may skip load_person_encoding or ignore its result *)

DirectTolerances == {6}                         \* tolerance=0.6
DirectFrameSkips == {0, 1, MaxFrameSkip}        \* frame_skip, not validated here

\* output_video_path, any string: one ending in '.mp4' and one without it
DirectOutputPaths ==
    {Join(OUTPUT_FOLDER, output_filename), Join(OUTPUT_FOLDER, <<"result", ".", "avi">>)}

\* PersonDetector.__init__
Construct ==
    /\ entry = "direct" /\ pc = "start"
    /\ person_path' = Join(UPLOAD_FOLDER, <<"photo", ".", "JPG">>)
    /\ video_path' = Join(UPLOAD_FOLDER, <<"clip", ".", "mp4">>)
    /\ files' = {person_path', video_path'}
    /\ person_encoding' = None
    /\ pc' = "constructed"
    /\ UNCHANGED <<entry, request, tolerance, frame_skip, person_file, video_file,
                   output_video_path, reference, result, exception, response,
                   escaped, resourceVars, scanVars>>

\* the caller invokes load_person_encoding
DirectLoad ==
    /\ entry = "direct" /\ pc = "constructed"
    /\ pc' = "load"
    /\ UNCHANGED <<entry, requestVars, files, reference, person_encoding, result,
                   exception, response, escaped, resourceVars, scanVars>>

\* the caller invokes detect_person_in_video(output_video_path, tolerance,
\* frame_skip), whatever came before
DirectDetect ==
    /\ entry = "direct" /\ pc \in {"constructed", "loaded"}
    /\ output_video_path' \in DirectOutputPaths
    /\ tolerance' \in DirectTolerances
    /\ frame_skip' \in DirectFrameSkips
    /\ pc' = "detect"
    /\ UNCHANGED <<entry, request, person_file, video_file, person_path, video_path,
                   files, reference, person_encoding, result, exception, response,
                   escaped, resourceVars, scanVars>>

RunsInit == Start({"api", "cli", "direct"})

RunsNext ==
    \/ Next
    \/ Construct
    \/ DirectLoad
    \/ DirectDetect

\* the service, the tool, and direct use of the class
Runs == RunsInit /\ [][RunsNext]_vars

----------------------------------------------------------------------------
(* detect_person_in_video on one video: 300 raw frames at 30 fps, the person
   of the reference in the raw frames 60..89, the request's defaults
   tolerance 0.6 and frame_skip 5 *)

\* the faces raw frame i can show: the person, alone or beside a stranger, in
\* the frames 60..89; nobody or a stranger in the others
ScenarioFaces(i) ==
    IF i \in 60 .. 89
    THEN {<<<<0>>>>, <<<<7>>, <<0>>>>}
    ELSE {<<>>, <<<<7>>>>}

\* the handler has saved the uploads and loaded the encoding, and
\* detect_person_in_video has opened the video and read its properties
ScenarioInit ==
    /\ entry = "api"
    /\ pc = "open_writer"
    /\ request = [person_image |-> <<"photo", ".", "JPG">>,
                  crowd_video |-> <<"clip", ".", "mp4">>,
                  tolerance |-> Field("absent", 0), frame_skip |-> Field("absent", 0)]
    /\ tolerance = ParseTolerance(request.tolerance)
    /\ frame_skip = ParseFrameSkip(request.frame_skip)
    /\ person_file = request.person_image
    /\ video_file = request.crowd_video
    /\ person_path = Join(UPLOAD_FOLDER, <<"person_", Stamp, ".">> \o Extension(person_file))
    /\ video_path = Join(UPLOAD_FOLDER, <<"crowd_", Stamp, ".">> \o Extension(video_file))
    /\ output_video_path = Join(OUTPUT_FOLDER, output_filename)
    /\ files = {person_path, video_path}
    /\ reference = Image(TRUE, <<<<0>>>>)
    /\ person_encoding = load_person_encoding(reference).encoding
    /\ result = <<TRUE, load_person_encoding(reference).message>>
    /\ video = "open"
    /\ out = "none"
    /\ codecs_tried = <<>>
    /\ fps = Truncate(300)
    /\ total_frames = 300
    /\ frame_count = 0
    /\ detected_frames = 0
    /\ detection_timestamps = <<>>
    /\ detection_frame_path = None
    /\ person_found_in_frame = FALSE
    /\ frame = <<>>
    /\ face_i = 1
    /\ marks = {}
    /\ written = <<>>
    /\ snapshot = <<>>
    /\ saved_frames = <<>>
    /\ exception = "none"
    /\ response = None
    /\ yielded = 0
    /\ sampled = <<>>
    /\ matched = <<>>
    /\ releases = <<>>
    /\ escaped = {}

\* video.read() of the 300-frame video
ScenarioReadFrame == Read({300}, [i \in 0 .. 299 |-> ScenarioFaces(i)])

ScenarioNext ==
    \/ OpenWriter
    \/ ScenarioReadFrame
    \/ CompareFace
    \/ WriteFrame
    \/ Finish
    \/ AfterDetect

Scenario == ScenarioInit /\ [][ScenarioNext]_vars

----------------------------------------------------------------------------
(* Properties of a run of app.py *)

\* detect_person_in_video has run to its return statement
Completed == entry \in Callers /\ pc \in {"returned", "responded"} /\ video = "released"

Count(seq, x) == Cardinality({i \in 1 .. Len(seq) : seq[i] = x})

Indices(frames) == [i \in 1 .. Len(frames) |-> frames[i].index]

\* 0, skip, 2*skip, ... below n
Multiples(skip, n) == [k \in 1 .. CeilDiv(n, skip) |-> (k - 1) * skip]

\* C1: the detected_frames of a completed run is the number of sampled frames
\* that contain at least one matching face.
C1_DetectedFramesCountsFrames ==
    Completed => result[2].detected_frames = Len(matched)

\* C2: the detection_timestamps of a completed run holds frame_index / fps of
\* every sampled frame with a match, once each, in order, and nothing else.
C2_OneTimestampPerMatchedFrame ==
    Completed =>
        /\ result[2].detection_timestamps =
              [i \in 1 .. Len(matched) |-> Timestamp(matched[i], fps)]
        /\ \A i \in 1 .. Len(result[2].detection_timestamps) - 1 :
              Before(result[2].detection_timestamps[i], result[2].detection_timestamps[i + 1])

\* C3: the snapshot is written at most once, while the first sampled frame that
\* contains a match is processed; detection_frame_path is set in that step, and
\* once it is set no step writes a snapshot or changes the path.
C3_SnapshotWrittenOnce ==
    [][/\ snapshot' # snapshot =>
            /\ snapshot = <<>> /\ Len(snapshot') = 1
            /\ detection_frame_path = None /\ detection_frame_path' # None
            /\ snapshot'[1].path = detection_frame_path'
            /\ matched # <<>> /\ snapshot'[1].index = matched[1]
            /\ frame_count = matched[1]
       /\ detection_frame_path # None =>
            /\ detection_frame_path' = detection_frame_path
            /\ snapshot' = snapshot
       /\ (detection_frame_path = None /\ detection_frame_path' # None) =>
            snapshot' # snapshot]_vars

C3_LaterMatchesKeepSnapshot ==
    /\ Completed
    /\ Len(snapshot) = 1
    /\ Len(matched) >= 2
    /\ detected_frames > Len(matched)

C5_TotalFramesCountsRawFrames ==
    Completed => result[2].total_frames = yielded

C5_SkippedFramesCounted ==
    /\ Completed
    /\ yielded = 3
    /\ Len(sampled) < yielded
    /\ result[2].total_frames = 3

\* C6: the primary codec is tried first; when neither writer initialises, no
\* frame is read, processed or written and no success summary is returned.
C6_BothCodecsFailingStopsTheRun ==
    /\ codecs_tried # <<>> => Head(codecs_tried) = "avc1"
    /\ out = "closed" =>
          /\ yielded = 0 /\ sampled = <<>> /\ written = <<>>
          /\ ~Completed

\* C7: when detect_person_in_video has been left with the video source opened,
\* the source has been released exactly once, and so has the writer if it opened.
C7_ResourcesReleasedOnExit ==
    (entry = "api" /\ pc \in {"returned", "raised", "responded"}
        /\ video \in {"open", "released"}) =>
        /\ Count(releases, "video") = 1
        /\ out \in {"open", "released"} => Count(releases, "out") = 1

\* C8: a reference image without a face ends the run with an error, and on
\* that path no video is opened, no writer is created and no image is written.
C8_NoFaceStopsBeforeVideo ==
    (reference.readable /\ reference.faces = <<>>) =>
        /\ pc \in {"loaded", "responded", "cli_loaded", "exited"}
        /\ ~result[1]
        /\ person_encoding = None
        /\ video = "none" /\ out = "none" /\ codecs_tried = <<>>
        /\ yielded = 0 /\ snapshot = <<>> /\ saved_frames = <<>>
        /\ output_video_path \notin files
        /\ pc = "responded" => response[1] = 400

C8_NoFaceRejected ==
    /\ entry = "api"
    /\ reference.readable /\ reference.faces = <<>>
    /\ pc = "responded"
    /\ response[1] = 400

\* C9: no fault propagates out of load_person_encoding or
\* detect_person_in_video; a failure is the returned pair (False, message).
C9_NoFaultLeavesTheCore ==
    /\ core \notin escaped
    /\ (entry = "api" /\ pc = "raised") => exception = "ValueError"
    /\ (entry = "api" /\ pc = "returned" /\ result[1]) => out # "closed"

\* C10: when the response of a request that saved both uploads is returned,
\* both uploads are deleted, and the output video and snapshot are still there.
C10_UploadsDeletedOnResponse ==
    (entry = "api" /\ pc = "responded" /\ person_path # None) =>
        /\ person_path \notin files
        /\ video_path \notin files
        /\ out \in {"open", "released"} => output_video_path \in files
        /\ snapshot # <<>> => snapshot[1].path \in files

\* the request names a tolerance outside [0.0, 1.0] or a frame_skip below 1
OutOfRange(sent) ==
    \/ sent.tolerance.kind = "number"
          /\ (sent.tolerance.value < 0 \/ sent.tolerance.value > 10)
    \/ sent.frame_skip.kind = "number" /\ sent.frame_skip.value < 1

ScanPositions == {"open_writer", "loop", "faces", "finish"}

\* C11: a request with a tolerance outside [0.0, 1.0] or a frame_skip below 1
\* is answered with status 400 before a file is saved or a detector created,
\* and the scan never runs with such a value.
C11_OutOfRangeRejectedWith400 ==
    /\ (entry = "api" /\ OutOfRange(request)) =>
          /\ pc \in {"params", "responded"}
          /\ pc = "responded" => response[1] = 400
          /\ files = {} /\ person_path = None /\ result = None
          /\ video = "none" /\ out = "none" /\ yielded = 0
    /\ (entry = "api" /\ pc \in ScanPositions) =>
          frame_skip >= 1 /\ 0 <= tolerance /\ tolerance <= 10

\* C12: a request without the person_image or without the crowd_video is
\* answered with status 400 and an error message; nothing is saved, no
\* detector runs and no output is created.
C12_MissingFileRejected ==
    (entry = "api" /\ pc # "start"
        /\ (request.person_image = None \/ request.crowd_video = None)) =>
        /\ pc = "responded"
        /\ response[1] = 400
        /\ response[2].error = "Both person_image and crowd_video files are required"
        /\ files = {} /\ person_path = None /\ output_video_path = None
        /\ person_encoding = None /\ result = None
        /\ video = "none" /\ out = "none" /\ yielded = 0 /\ snapshot = <<>>

C12_OnlyVideoMissing ==
    /\ entry = "api" /\ pc = "responded"
    /\ request.person_image # None /\ request.crowd_video = None
    /\ response[1] = 400

C14_ThreeHundredFrames ==
    Completed =>
        /\ frame_skip = 5 /\ fps = 30
        /\ result[2].total_frames = 300
        /\ sampled = [k \in 1 .. 60 |-> 5 * (k - 1)]
        /\ Indices(written) = sampled
        /\ matched = <<60, 65, 70, 75, 80, 85>>
        /\ result[2].detected_frames = 6
        /\ result[2].detection_timestamps =
              <<<<60, 30>>, <<65, 30>>, <<70, 30>>, <<75, 30>>, <<80, 30>>, <<85, 30>>>>
        /\ Len(snapshot) = 1
        /\ snapshot[1].index = 60
        /\ result[2].detection_frame_path = snapshot[1].path

C14_ScenarioCompleted ==
    /\ Completed
    /\ yielded = 300
    /\ Len(written) = 60
    /\ detected_frames = 6
    /\ out = "released"

\* the state of a run of app.py's detector
RunState ==
    IF pc \in {"start", "params", "save", "load", "constructed"} THEN "Idle"
    ELSE IF pc = "loaded" THEN (IF result[1] THEN "ReferenceLoaded" ELSE "Failed")
    ELSE IF pc = "detect"
         THEN (IF person_encoding # None THEN "ReferenceLoaded"
               ELSE IF result = None THEN "Idle" ELSE "Failed")
    ELSE IF pc \in ScanPositions THEN "Scanning"
    ELSE IF pc = "raised" THEN "Failed"
    ELSE IF result # None /\ result[1] /\ video = "released" THEN "Completed"
    ELSE "Failed"

ForwardSteps ==
    {<<"Idle", "ReferenceLoaded">>, <<"ReferenceLoaded", "Scanning">>,
     <<"Scanning", "Completed">>, <<"Idle", "Failed">>,
     <<"ReferenceLoaded", "Failed">>, <<"Scanning", "Failed">>}

\* C15: a run of app.py's detector stays in its state or takes one of the
\* steps Idle -> ReferenceLoaded -> Scanning -> Completed or into Failed, so it
\* never leaves Completed or Failed; the video is opened only with a loaded
\* encoding; and detect_person_in_video called without one returns an error
\* and opens no video.
C15_RunMovesForward ==
    [][(entry \in Callers) =>
          (/\ RunState' = RunState \/ <<RunState, RunState'>> \in ForwardSteps
           /\ video' # "none" => person_encoding' # None
           /\ (pc = "detect" /\ person_encoding = None) =>
                 (/\ pc' = "returned"
                  /\ ~result'[1]
                  /\ video' = "none" /\ out' = "none" /\ yielded' = 0))]_vars

C15_DetectWithoutEncoding ==
    /\ entry = "direct" /\ pc = "returned"
    /\ reference = Image(FALSE, <<>>) /\ person_encoding = None
    /\ result = <<FALSE, "Person encoding not loaded.">>
    /\ video = "none"

\* the faces of a frame that match the reference
Matching(faces) ==
    {i \in 1 .. Len(faces) : face_distance(person_encoding, faces[i]) <= tolerance}

\* C16: write is called only when the face loop of a sampled frame has ended,
\* with that frame and all its annotations, match or no match, and with a
\* larger index than the frame written before; when the next raw frame is
\* read or the loop has ended, the frames written are exactly the sampled
\* ones, once each and in order, so no skipped frame is written.
C16_WriteOncePerSampledFrame ==
    [][(entry \in Callers) =>
          (/\ written' # written =>
                 (/\ pc = "faces" /\ face_i > Len(frame)
                  /\ IsSampled(frame_count, frame_skip)
                  /\ sampled # <<>> /\ sampled[Len(sampled)] = frame_count
                  /\ written' = Append(written, [index |-> frame_count,
                                                 marks |-> Matching(frame)])
                  /\ written # <<>> => written[Len(written)].index < frame_count
                  /\ yielded' = yielded)
           /\ yielded' # yielded => Indices(written) = sampled
           /\ pc' = "finish" => Indices(written') = sampled')]_vars

C16_MatchAndNoMatchWritten ==
    /\ Completed
    /\ Len(written) = MaxFrames
    /\ written[1].marks = {}
    /\ written[2].marks # {}

\* C17: a step of a scan that changes detection_timestamps appends one
\* timestamp that is not before any timestamp of the list, and leaves the
\* earlier entries as they were; so the list is non-decreasing throughout.
C17_TimestampsAppendedInOrder ==
    [][(entry \in Callers /\ detection_timestamps' # detection_timestamps) =>
          (/\ Len(detection_timestamps') = Len(detection_timestamps) + 1
           /\ SubSeq(detection_timestamps', 1, Len(detection_timestamps)) =
                 detection_timestamps
           /\ \A i \in 1 .. Len(detection_timestamps) :
                 ~Before(detection_timestamps'[Len(detection_timestamps')],
                         detection_timestamps[i])
           /\ \A i, j \in 1 .. Len(detection_timestamps') :
                 i < j => ~Before(detection_timestamps'[j], detection_timestamps'[i]))]_vars

C17_EqualAndLaterTimestamps ==
    /\ entry = "api" /\ pc = "faces"
    /\ Len(detection_timestamps) = 3
    /\ detection_timestamps[1] = detection_timestamps[2]
    /\ Before(detection_timestamps[2], detection_timestamps[3])

\* C18: the snapshot shows the annotations of every matched face of its
\* frame: the frame written to the output video for the snapshot's index
\* carries the same annotations as the snapshot.
C18_SnapshotEqualsWrittenFrame ==
    \A k \in 1 .. Len(written) :
        (snapshot # <<>> /\ written[k].index = snapshot[1].index) =>
            snapshot[1].marks = written[k].marks

\* C19: once the scan loop has been entered and left, it was left at the end
\* of the stream: the video source and then the writer have been released,
\* and the summary of all frames read has been returned.
C19_LoopEndsReleasedThenSummary ==
    (entry \in Callers /\ codecs_tried # <<>> /\ pc \notin ScanPositions) =>
        /\ video = "released"
        /\ releases = <<"video", "out">>
        /\ result[1]
        /\ result[2].total_frames = yielded

\* no writer, no frame written, no snapshot and no output file
NoOutput ==
    /\ out = "none" /\ codecs_tried = <<>>
    /\ written = <<>> /\ snapshot = <<>>
    /\ output_video_path \notin files
    /\ detection_frame_path = None

\* C20: when the video cannot be opened, detect_person_in_video has returned
\* the error with no writer created and no snapshot written; and as long as
\* no reference encoding is loaded there is no output either.
C20_OpenFailureLeavesNoOutput ==
    /\ (entry \in Callers /\ video = "failed") =>
          /\ pc \in {"returned", "responded"}
          /\ result = <<FALSE, "Could not open video file.">>
          /\ NoOutput
    /\ (entry \in Callers /\ person_encoding = None) => NoOutput

C20_VideoOpenFailed ==
    /\ entry = "api" /\ pc = "responded"
    /\ person_encoding # None
    /\ video = "failed"
    /\ response = Error(500, "Could not open video file.")

\* C21: throughout a scan detection_timestamps has detected_frames entries and
\* detection_frame_path is set exactly when detected_frames > 0; the returned
\* summary carries the same three values.
C21_CountersAgree ==
    (entry \in Callers) =>
        /\ Len(detection_timestamps) = detected_frames
        /\ detection_frame_path # None <=> detected_frames > 0
        /\ Completed =>
              /\ Len(result[2].detection_timestamps) = result[2].detected_frames
              /\ result[2].detection_frame_path # None <=> result[2].detected_frames > 0
              /\ result[2].detected_frames = detected_frames

C21_TwoDetectionsInOneFrame ==
    /\ entry \in Callers /\ pc = "faces"
    /\ frame_count = 0
    /\ detected_frames = 2
    /\ Len(detection_timestamps) = 2
    /\ detection_frame_path # None

\* C22: whatever output_video_path detect_person_in_video is given, the
\* snapshot is written to a path other than output_video_path.
C22_SnapshotPathDiffers ==
    (entry \in Callers) =>
        \A k \in 1 .. Len(snapshot) : snapshot[k].path # output_video_path

\* C23: a success response of /api/detect names a snapshot file in its
\* detection_frame field exactly when the summary's detection_frame_path is
\* set, and then both are the same file of the output folder, which exists;
\* after a run without a detection the field names no file.
C23_DetectionFrameOnlyIfWritten ==
    (entry = "api" /\ pc = "responded" /\ response[1] = 200) =>
        /\ response[2].detection_summary.detection_frame_path # None =>
              /\ Join(OUTPUT_FOLDER, response[2].detection_frame) =
                    response[2].detection_summary.detection_frame_path
              /\ Join(OUTPUT_FOLDER, response[2].detection_frame) \in files
        /\ response[2].detection_summary.detection_frame_path = None =>
              response[2].detection_frame = None

====
